---- MODULE Spec2Model ----
(***************************************************************************)
(* Lines of symmetry of a finite point set (acham/rust-symm).              *)
(*                                                                         *)
(* The model follows src/src/core/{util,model,alg}.rs.  An f64 is modelled *)
(* as a binary fixed-point number: the integer n stands for n / Scale, and *)
(* every product and quotient is rounded to the nearest representable      *)
(* value, as the hardware rounds an f64 result.  The "bits" of a value are *)
(* the integer itself, so two values have the same to_bits() exactly when  *)
(* the integers are equal, while the tolerance comparisons of util.rs see  *)
(* all values closer than EPSILON as equal.                                *)
(***************************************************************************)
EXTENDS Integers, Naturals, Sequences, FiniteSets, TLC

\* ------------------------------------------------------------------ bounds

\* Every subset of Pool with at most MaxSubset points is an input set (the
\* four-point sets of Scenes are input sets too).
MaxSubset == 3

\* ----------------------------------------------------------- f64 arithmetic

\* Resolution of the modelled f64: the integer n is the value n / Scale.
Scale == 1024

\* config::EPSILON in the same units (4 / 1024).
EPSILON == 4

Abs(n) == IF n < 0 THEN -n ELSE n

\* n / d rounded to the nearest integer, halves away from zero (d > 0).
RoundDiv(n, d) == IF n >= 0 THEN (2 * n + d) \div (2 * d)
                            ELSE -((2 * (-n) + d) \div (2 * d))

\* f64 multiplication: the exact product rounded to the resolution.
FMul(x, y) == RoundDiv(x * y, Scale)

\* f64 division (y # 0): the exact quotient rounded to the resolution.
FDiv(x, y) == IF y > 0 THEN RoundDiv(x * Scale, y) ELSE -RoundDiv(x * Scale, -y)

\* x.powf(2.0)
Sq(x) == FMul(x, x)

\* The f64 of an integer literal.
Lit(k) == k * Scale

\* ------------------------------------------------------------------ util.rs

float_partial_cmp_tolerance(a, b) ==
    IF Abs(a - b) < EPSILON THEN "Equal"
    ELSE IF a < b THEN "Less" ELSE "Greater"

floats_equal_toler(a, b) == Abs(a - b) < EPSILON

floats_lt_toler(a, b) == b - a > EPSILON

\* ----------------------------------------------------------------- model.rs

Point(x, y) == [x |-> x, y |-> y]

Line(a, b, c) == [a |-> a, b |-> b, c |-> c]

\* impl PartialEq for Point
PointEq(p, q) == floats_equal_toler(p.x, q.x) /\ floats_equal_toler(p.y, q.y)

\* impl PartialOrd for Point
PointPartialCmp(p, q) ==
    LET x_cmp == float_partial_cmp_tolerance(p.x, q.x)
    IN  IF x_cmp = "Equal" THEN float_partial_cmp_tolerance(p.y, q.y) ELSE x_cmp

\* p <= q as derived from partial_cmp
PointLe(p, q) == PointPartialCmp(p, q) \in {"Less", "Equal"}

\* impl Hash for Point: what is fed to the hasher (the raw bits of x and y).
PointHash(p) == <<p.x, p.y>>

\* Line::is_point_on_line
is_point_on_line(l, p) ==
    floats_equal_toler(FMul(l.a, p.x) + FMul(l.b, p.y) + l.c, 0)

\* The denominator of Line::get_reflected_point, which panics when it is 0.
ReflectDenom(l) == Sq(l.a) + Sq(l.b)

\* Line::get_reflected_point (ReflectDenom(l) # 0)
get_reflected_point(l, p) ==
    LET denom  == ReflectDenom(l)
        factor == FDiv(FMul(Lit(2), FMul(l.a, p.x) + FMul(l.b, p.y) + l.c), denom)
    IN  Point(p.x - FMul(factor, l.a), p.y - FMul(factor, l.b))

\* impl PartialEq for Line
LineEq(l, m) ==
    /\ float_partial_cmp_tolerance(l.a, m.a) = "Equal"
    /\ float_partial_cmp_tolerance(l.b, m.b) = "Equal"
    /\ float_partial_cmp_tolerance(l.c, m.c) = "Equal"

\* The closure `round` of impl Hash for Line.
RoundToEpsilon(x) == RoundDiv(x, EPSILON) * EPSILON

\* impl Hash for Line: what is fed to the hasher.
LineHash(l) == <<RoundToEpsilon(l.a), RoundToEpsilon(l.b), RoundToEpsilon(l.c)>>

\* UnorderedPointPair::new
NewPairAsGiven(p1, p2) == <<p1, p2>>
NewUnorderedPointPair(p1, p2) == IF PointLe(p1, p2) THEN <<p1, p2>> ELSE <<p2, p1>>

\* derive(PartialEq) and derive(Hash) for UnorderedPointPair
PairEq(g, h) == PointEq(g[1], h[1]) /\ PointEq(g[2], h[2])
PairHash(g) == <<PointHash(g[1]), PointHash(g[2])>>

\* ------------------------------------------------------------------- alg.rs

get_equidistant_line(p1, p2) ==
    Line(p2.x - p1.x,
         p2.y - p1.y,
         FMul(Scale \div 2, Sq(p1.x) + Sq(p1.y) - Sq(p2.x) - Sq(p2.y)))

get_through_line(p1, p2) ==
    LET a == p2.y - p1.y
        b == p1.x - p2.x
    IN  Line(a, b, -(FMul(a, p1.x) + FMul(b, p1.y)))


\* ------------------------------------------------- std::collections lookups
(***************************************************************************)
(* A HashSet or HashMap probe compares a stored key with the probe only    *)
(* when their hashes select the same slot.  A stored key that is == to the *)
(* probe and was hashed from the same value is always found.  A stored key *)
(* that is == to the probe but was hashed from a different value is found  *)
(* only when the two hashes happen to collide, which the per-table random  *)
(* hasher decides: both outcomes are possible.  An outcome is the set of   *)
(* keys found: one key, or none.                                           *)
(***************************************************************************)
PointSetGet(set, probe) ==
    LET same == {q \in set : PointEq(q, probe) /\ PointHash(q) = PointHash(probe)}
        near == {q \in set : PointEq(q, probe)}
    IN  IF same # {} THEN {{q} : q \in same}
        ELSE {{q} : q \in near} \cup {{}}

PairSetGet(set, probe) ==
    LET same == {g \in set : PairEq(g, probe) /\ PairHash(g) = PairHash(probe)}
        near == {g \in set : PairEq(g, probe)}
    IN  IF same # {} THEN {{g} : g \in same}
        ELSE {{g} : g \in near} \cup {{}}

LineSetGet(set, probe) ==
    LET same == {m \in set : LineEq(m, probe) /\ LineHash(m) = LineHash(probe)}
        near == {m \in set : LineEq(m, probe)}
    IN  IF same # {} THEN {{m} : m \in same}
        ELSE {{m} : m \in near} \cup {{}}

\* `if !set.contains(&l) { set.insert(l); }`: the possible sets afterwards.
LineSetInsert(set, l) ==
    {IF found = {} THEN set \cup {l} ELSE set : found \in LineSetGet(set, l)}

\* ------------------------------------------------------------------- inputs

\* The points a caller may put into the input set: integer coordinates, so
\* any two of them are further apart than 2 * EPSILON.
Pool == {Point(Lit(-1), Lit(0)), Point(Lit(0), Lit(0)), Point(Lit(1), Lit(0)),
         Point(Lit(2), Lit(0)), Point(Lit(0), Lit(1)), Point(Lit(0), Lit(-1))}

\* Scenario C of the specification.
Square == {Point(Lit(1), Lit(0)), Point(Lit(-1), Lit(0)),
           Point(Lit(0), Lit(1)), Point(Lit(0), Lit(-1))}

\* Four points in a row, symmetric about x = 1/2.
Row == {Point(Lit(-1), Lit(0)), Point(Lit(0), Lit(0)),
        Point(Lit(1), Lit(0)), Point(Lit(2), Lit(0))}

\* Four points in a row, symmetric about x = 3/2, the inner two 3 apart and
\* the outer two 5 apart.
GappedRow == {Point(Lit(-1), Lit(0)), Point(Lit(0), Lit(0)),
              Point(Lit(3), Lit(0)), Point(Lit(4), Lit(0))}

Scenes == {Square, Row, GappedRow}

\* The orders in which a HashSet holding S may enumerate it.
Enumerations(S) ==
    {f \in [1..Cardinality(S) -> S] : \A i, j \in DOMAIN f : f[i] = f[j] => i = j}

\* The argument high_degree_expected: Option<bool>.
FlagArgs == {"None", "Some(true)", "Some(false)"}

\* high_degree_expected.unwrap_or(true)
UnwrapOrTrue(opt) == opt # "Some(false)"

VARIABLES
    points,                 \* the caller's HashSet<Point>
    points_vec,             \* points.iter(): the enumeration order of this call
    flag_arg,               \* the argument high_degree_expected
    pc,                     \* "start", "loop", "done" or "panicked"
    e_line_generators,      \* HashSet<UnorderedPointPair>
    through_line_possible,
    lines_set,              \* HashSet<Line>, the result
    candidate,              \* the last loop iteration: {} or one record of
                            \* e_pair, e_line, valid_line and the covered pairs
    earlier,                \* {} or {the result of an earlier call on points}
    line_pair,              \* two Line values handed to a HashSet<Line>
    line_table,             \* that HashSet<Line>
    point_pair,             \* two Point values handed to a HashSet<Point>
    point_table             \* that HashSet<Point>

callvars == <<points, points_vec, flag_arg, pc, e_line_generators,
              through_line_possible, lines_set, candidate, earlier>>

tablevars == <<line_pair, line_table, point_pair, point_table>>

vars == <<callvars, tablevars>>

high_degree_expected == UnwrapOrTrue(flag_arg)

\* `if points.len() < 2`
TooFewPointsOffByOne(pts) == Cardinality(pts) < 1
TooFewPoints(pts) == Cardinality(pts) < 2

\* The nested loops that fill e_line_generators.
AllGenerators(vec) ==
    {NewUnorderedPointPair(vec[ij[1]], vec[ij[2]]) :
        ij \in {ij \in (1..Len(vec)) \X (1..Len(vec)) : ij[1] < ij[2]}}

\* `e_line_generators.remove(&e_pair)` on the pair just taken.
KeepCandidate(gens, e_pair) == gens
RemoveCandidate(gens, e_pair) == gens \ {e_pair}

\* The state of one validation scan: the loop-local values of the body of
\* `while let Some(e_pair) = ...`.  covered collects the covered_pair values
\* removed from the generators; broke is set by `break` (and by a panic).
ScanStart(e_pair, gens) ==
    [e_line            |-> get_equidistant_line(e_pair[1], e_pair[2]),
     point_reflections |-> (e_pair[1] :> e_pair[2]) @@ (e_pair[2] :> e_pair[1]),
     generators        |-> RemoveCandidate(gens, e_pair),
     valid_line        |-> TRUE,
     covered           |-> {},
     broke             |-> FALSE,
     panicked          |-> FALSE]

\* `point_reflections.get(point)`: TRUE when some entry is returned.
MapGetHits(map, point) ==
    {found # {} : found \in PointSetGet(DOMAIN map, point)}

\* The branch `points.contains(&reflection)`: both points are recorded and
\* their pair is removed from the generators if it is still there.
OnReflectionFound(st, point, reflection_in_input) ==
    LET covered_pair == NewUnorderedPointPair(point, reflection_in_input)
        map == (reflection_in_input :> point) @@ (point :> reflection_in_input)
                   @@ st.point_reflections
    IN  {[st EXCEPT !.point_reflections = map,
                    !.generators = st.generators \ hit,
                    !.covered = st.covered \cup hit] :
            hit \in PairSetGet(st.generators, covered_pair)}

\* The branch where the reflection is not in the input set.
OnReflectionMissingKeepsValid(st) ==
    [st EXCEPT !.broke = ~high_degree_expected]
OnReflectionMissing(st) ==
    [st EXCEPT !.valid_line = FALSE, !.broke = ~high_degree_expected]

\* One iteration of `for point in points`.
ScanPoint(st, point) ==
    UNION {
        IF in_map THEN {st}
        ELSE IF ReflectDenom(st.e_line) = 0
        THEN {[st EXCEPT !.panicked = TRUE, !.broke = TRUE]}
        ELSE LET reflection == get_reflected_point(st.e_line, point)
             IN  IF PointEq(reflection, point)
                 THEN {[st EXCEPT !.point_reflections = (point :> point) @@ @]}
                 ELSE UNION {
                     IF found = {} THEN {OnReflectionMissing(st)}
                     ELSE UNION {OnReflectionFound(st, point, q) : q \in found}
                     : found \in PointSetGet(points, reflection)}
        : in_map \in MapGetHits(st.point_reflections, point)}

\* `for point in points { ... }` from position i on: the possible final states.
RECURSIVE ScanFrom(_, _)
ScanFrom(st, i) ==
    IF i > Len(points_vec) \/ st.broke THEN {st}
    ELSE UNION {ScanFrom(next, i + 1) : next \in ScanPoint(st, points_vec[i])}

\* `if valid_line { if through_line_possible { through_line_possible = false } }`
ThroughLineStaysPossible(possible, valid_line) == possible
NextThroughLinePossible(possible, valid_line) ==
    IF valid_line THEN FALSE ELSE possible

\* `for point in &points_vec[2..]` of the through-line check.
through_line_valid(through_line, vec) ==
    \A i \in 3..Len(vec) : is_point_on_line(through_line, vec[i])

\* ---------------------------------------------------------------- the call

NoCall == /\ pc = "start"
          /\ e_line_generators = {}
          /\ through_line_possible = TRUE
          /\ lines_set = {}
          /\ candidate = {}

Inputs == {S \in SUBSET Pool : Cardinality(S) <= MaxSubset} \cup Scenes

NoTables == /\ line_pair = <<>>
            /\ line_table = {}
            /\ point_pair = <<>>
            /\ point_table = {}

Init == /\ points \in Inputs
        /\ points_vec \in Enumerations(points)
        /\ flag_arg \in FlagArgs
        /\ earlier = {}
        /\ NoCall
        /\ NoTables

\* Fewer than two points: the warning is printed and the empty set returned.
ReturnEmpty ==
    /\ pc = "start"
    /\ TooFewPoints(points)
    /\ pc' = "done"
    /\ UNCHANGED <<points, points_vec, flag_arg, e_line_generators,
                   through_line_possible, lines_set, candidate, earlier>>
    /\ UNCHANGED tablevars

\* Every pair of points becomes a generator.
BuildGenerators ==
    /\ pc = "start"
    /\ ~TooFewPoints(points)
    /\ e_line_generators' = AllGenerators(points_vec)
    /\ pc' = "loop"
    /\ UNCHANGED <<points, points_vec, flag_arg, through_line_possible,
                   lines_set, candidate, earlier>>
    /\ UNCHANGED tablevars

\* One iteration of the while loop: take any pair, validate its equidistant
\* line against every point, keep the line if it stayed valid.
ProcessCandidate ==
    /\ pc = "loop"
    /\ \E e_pair \in e_line_generators :
         \E st \in ScanFrom(ScanStart(e_pair, e_line_generators), 1) :
            /\ e_line_generators' = st.generators
            /\ candidate' = {[e_pair     |-> e_pair,
                              e_line     |-> st.e_line,
                              valid_line |-> st.valid_line,
                              covered    |-> st.covered]}
            /\ IF st.panicked
               THEN /\ pc' = "panicked"
                    /\ UNCHANGED <<through_line_possible, lines_set>>
               ELSE /\ pc' = "loop"
                    /\ through_line_possible' =
                         NextThroughLinePossible(through_line_possible, st.valid_line)
                    /\ IF st.valid_line
                       THEN lines_set' \in LineSetInsert(lines_set, st.e_line)
                       ELSE UNCHANGED lines_set
    /\ UNCHANGED <<points, points_vec, flag_arg, earlier>>
    /\ UNCHANGED tablevars

\* After the loop: the line through all the points, then the return.
Fallback ==
    /\ pc = "loop"
    /\ e_line_generators = {}
    /\ IF through_line_possible /\ Len(points_vec) >= 2
       THEN LET through_line == get_through_line(points_vec[1], points_vec[2])
            IN  IF through_line_valid(through_line, points_vec)
                THEN lines_set' \in LineSetInsert(lines_set, through_line)
                ELSE UNCHANGED lines_set
       ELSE UNCHANGED lines_set
    /\ pc' = "done"
    /\ UNCHANGED <<points, points_vec, flag_arg, e_line_generators,
                   through_line_possible, candidate, earlier>>
    /\ UNCHANGED tablevars

Next == ReturnEmpty \/ BuildGenerators \/ ProcessCandidate \/ Fallback

Spec == Init /\ [][Next]_vars


\* ------------------------------------------------- a second call (main.rs)
(***************************************************************************)
(* The caller asks again for the lines of the same points.  The points are *)
(* held by another HashSet, so they may be enumerated in another order and *)
(* the generators may be consumed in another order; the result of the      *)
(* first call is kept for comparison.                                      *)
(***************************************************************************)
CallAgain ==
    /\ pc = "done"
    /\ earlier = {}
    /\ earlier' = {lines_set}
    /\ points_vec' \in Enumerations(points)
    /\ pc' = "start"
    /\ e_line_generators' = {}
    /\ through_line_possible' = TRUE
    /\ lines_set' = {}
    /\ candidate' = {}
    /\ UNCHANGED <<points, flag_arg>>
    /\ UNCHANGED tablevars

\* The points of the compared calls lie in a row.
InitTwice == /\ points \in SUBSET Row
             /\ points_vec \in Enumerations(points)
             /\ flag_arg \in FlagArgs
             /\ earlier = {}
             /\ NoCall
             /\ NoTables

NextTwice == Next \/ CallAgain

SpecTwice == InitTwice /\ [][NextTwice]_vars

\* ------------------------------------- hash tables of lines and of points
(***************************************************************************)
(* Two lines, and two points, are inserted into an empty HashSet, as the   *)
(* unit test test_line_hash of model.rs does with seven lines.             *)
(***************************************************************************)

\* Offsets from a coefficient or coordinate, in units of 1 / Scale: from 0 to
\* a little more than EPSILON.
Offsets == 0..(EPSILON + 1)

TestLines == {Line(Lit(1) + d, Lit(2), Lit(3)) : d \in Offsets}
                 \cup {Line(Lit(1), Lit(2), Lit(3) + d) : d \in Offsets}

TestPoints == {Point(Lit(1) + d, Lit(2)) : d \in Offsets}
                  \cup {Point(Lit(1), Lit(2) + d) : d \in Offsets}

\* HashSet<Point>::insert: the possible sets afterwards.
PointSetInsert(set, p) ==
    {IF found = {} THEN set \cup {p} ELSE set : found \in PointSetGet(set, p)}

InitTables ==
    /\ line_pair \in TestLines \X TestLines
    /\ point_pair \in TestPoints \X TestPoints
    /\ line_table = {}
    /\ point_table = {}
    /\ points = {}
    /\ points_vec = <<>>
    /\ flag_arg = "None"
    /\ earlier = {}
    /\ NoCall

InsertLines ==
    /\ line_table = {}
    /\ \E first \in LineSetInsert({}, line_pair[1]) :
          line_table' \in LineSetInsert(first, line_pair[2])
    /\ UNCHANGED <<line_pair, point_pair, point_table>>
    /\ UNCHANGED callvars

InsertPoints ==
    /\ point_table = {}
    /\ \E first \in PointSetInsert({}, point_pair[1]) :
          point_table' \in PointSetInsert(first, point_pair[2])
    /\ UNCHANGED <<line_pair, line_table, point_pair>>
    /\ UNCHANGED callvars

NextTables == InsertLines \/ InsertPoints

SpecTables == InitTables /\ [][NextTables]_vars


\* ---------------------------------------------------------------- geometry
(***************************************************************************)
(* Exact geometry of the input points, used to state the claims.  The      *)
(* input points have integer coordinates; a line is a triple <<a, b, c>>   *)
(* of integers standing for a*x + b*y + c = 0.                             *)
(***************************************************************************)
Coord(v) == v \div Scale

ExactBisector(p, q) ==
    LET x1 == Coord(p.x)  y1 == Coord(p.y)
        x2 == Coord(q.x)  y2 == Coord(q.y)
    IN  <<2 * (x2 - x1), 2 * (y2 - y1), x1 * x1 + y1 * y1 - x2 * x2 - y2 * y2>>

ExactThrough(p, q) ==
    LET x1 == Coord(p.x)  y1 == Coord(p.y)
        x2 == Coord(q.x)  y2 == Coord(q.y)
        a  == y2 - y1
        b  == x1 - x2
    IN  <<a, b, -(a * x1 + b * y1)>>

\* The mirror image of p across L is the point q.
ExactMirror(L, p, q) ==
    LET x == Coord(p.x)  y == Coord(p.y)
        v == L[1] * x + L[2] * y + L[3]
        d == L[1] * L[1] + L[2] * L[2]
    IN  /\ (Coord(q.x) - x) * d = -2 * v * L[1]
        /\ (Coord(q.y) - y) * d = -2 * v * L[2]

\* Reflecting S across L reproduces S.
ExactSymmetry(L, S) == \A p \in S : \E q \in S : ExactMirror(L, p, q)

\* The Line value M lies on the exact line L.
SameLine(L, M) ==
    /\ L[1] * M.b = L[2] * M.a
    /\ L[1] * M.c = L[3] * M.a
    /\ L[2] * M.c = L[3] * M.b

\* The perpendicular bisectors of pairs of points of S that are lines of
\* symmetry of S.
SymmetricBisectors(S) ==
    {L \in {ExactBisector(p, q) : p \in S, q \in S} :
        (L[1] # 0 \/ L[2] # 0) /\ ExactSymmetry(L, S)}

\* All lines of symmetry of S (two points or more): such a line is the
\* bisector of two points of S or passes through every point of S.
LinesOfSymmetry(S) ==
    SymmetricBisectors(S) \cup
    {L \in {ExactThrough(p, q) : p \in S, q \in S} :
        (L[1] # 0 \/ L[2] # 0) /\ ExactSymmetry(L, S)}

\* Two results hold the same lines under Line equality.
SameLines(r1, r2) ==
    /\ Cardinality(r1) = Cardinality(r2)
    /\ \A l \in r1 : \E m \in r2 : LineEq(l, m)
    /\ \A m \in r2 : \E l \in r1 : LineEq(l, m)

\* ------------------------------------------------------------------ claims

\* C1 (soundness): for every line L of the result and every input point p,
\* p lies on L within tolerance or the reflection of p across L is, within
\* tolerance, a point of the input set.
C1_Soundness ==
    \A L \in lines_set : \A p \in points :
        \/ is_point_on_line(L, p)
        \/ /\ ReflectDenom(L) # 0
           /\ \E q \in points : PointEq(get_reflected_point(L, p), q)

\* C1 witness: a call on four points returned a line that some input point
\* is off, after having rejected another candidate.
C1_Witness ==
    /\ pc = "done"
    /\ Cardinality(points) = 4
    /\ \E L \in lines_set : \E p \in points : ~is_point_on_line(L, p)
    /\ \E c \in candidate : ~c.valid_line

\* C2 (completeness), as claimed: every line of symmetry of the input set is
\* in the result as a geometric line.
C2_Completeness ==
    (pc = "done" /\ Cardinality(points) >= 2) =>
        \A L \in LinesOfSymmetry(points) : \E M \in lines_set : SameLine(L, M)

\* C3 (order independence), as claimed: a second call on the same points
\* with the same flag returns the same set of Line values, whatever the
\* enumeration order and the order in which the generators are consumed.
C3_OrderIndependent ==
    pc = "done" => \A r \in earlier : SameLines(r, lines_set)

\* C4 (insufficient input): with fewer than 2 points the call returns the
\* empty set without building a generator, taking a candidate or leaving
\* the guard for the loop or the through-line check.
C4_TooFewPointsEmpty ==
    Cardinality(points) < 2 =>
        /\ pc \in {"start", "done"}
        /\ e_line_generators = {}
        /\ candidate = {}
        /\ lines_set = {}

\* C4 witness: a call on a single point has returned.
C4_Witness == pc = "done" /\ Cardinality(points) = 1

\* C5 (scenario C): for the square the result is exactly the two axes and
\* the two diagonals, each diagonal stored once.
C5_SquareLines ==
    (pc = "done" /\ points = Square) =>
        lines_set = {Line(Lit(2), Lit(0), Lit(0)), Line(Lit(0), Lit(2), Lit(0)),
                     Line(Lit(1), Lit(-1), Lit(0)), Line(Lit(1), Lit(1), Lit(0))}

\* C5 witness: a call on the square has returned four lines.
C5_Witness == pc = "done" /\ points = Square /\ Cardinality(lines_set) = 4

\* C6 (Point hash/equality contract), as claimed: two points that compare
\* equal feed the same value to the hasher, so a set holding one of them
\* finds it when probed with the other and keeps a single entry.
C6_PointHashContract ==
    (point_table # {} /\ PointEq(point_pair[1], point_pair[2])) =>
        /\ PointHash(point_pair[1]) = PointHash(point_pair[2])
        /\ PointSetGet({point_pair[1]}, point_pair[2]) = {{point_pair[1]}}
        /\ Cardinality(point_table) = 1

\* Every coefficient of l differs from that of m by less than EPSILON.
CoefficientsClose(l, m) ==
    Abs(l.a - m.a) < EPSILON /\ Abs(l.b - m.b) < EPSILON /\ Abs(l.c - m.c) < EPSILON

\* C7 (Line hash/equality), as claimed: lines whose coefficients all differ
\* by less than EPSILON are equal, hash identically and share one entry of
\* a hash set; lines with a coefficient EPSILON or more apart are unequal
\* and are two entries.
C7_LineHashContract ==
    line_table # {} =>
        IF CoefficientsClose(line_pair[1], line_pair[2])
        THEN /\ LineEq(line_pair[1], line_pair[2])
             /\ LineHash(line_pair[1]) = LineHash(line_pair[2])
             /\ Cardinality(line_table) = 1
        ELSE /\ ~LineEq(line_pair[1], line_pair[2])
             /\ Cardinality(line_table) = 2

C9_RetirementPermanent ==
    [][pc = "loop" =>
          /\ e_line_generators' \subseteq e_line_generators
          /\ pc' = "loop" =>
               \A c \in candidate' :
                   /\ c.e_pair \in e_line_generators
                   /\ c.e_pair \notin e_line_generators'
                   /\ c.covered \subseteq e_line_generators
                   /\ c.covered \cap e_line_generators' = {}]_vars

\* C9 witness: an iteration retired a pair other than the one it took.
C9_Witness ==
    /\ pc = "loop"
    /\ \E c \in candidate : c.covered # {} /\ c.e_pair \notin c.covered

\* C10 (pruning loses no bisector), as claimed: every perpendicular bisector
\* of two input points that is a line of symmetry of the input set is in the
\* result as a geometric line.
C10_NoBisectorLost ==
    pc = "done" =>
        \A L \in SymmetricBisectors(points) : \E M \in lines_set : SameLine(L, M)

====
